---- MODULE Spec2Model ----
(***************************************************************************)
(* Model of geomstats/geometry/discrete_surfaces.py: the manifold          *)
(* DiscreteSurfaces (a fixed triangulation `faces`, points are arrays of   *)
(* n_vertices 3D coordinates) and ElasticMetric (six weights, one inner    *)
(* product).                                                               *)
(*                                                                         *)
(* Numbers.  The code computes in floating point; the model computes in    *)
(* exact rational arithmetic: a number is a pair <<n, d>> in lowest terms  *)
(* with d > 0.  A square root is taken only of a rational that is a        *)
(* perfect square: the sampled surfaces have their vertices on the lattice *)
(* (0,0,0), (+-3,0,0), (0,+-4,0), whose pairwise distances (3, 4, 5, 6, 8) *)
(* and triangle areas (6, 12, or 0) are all integers.  Rounding error is   *)
(* therefore outside the model.                                            *)
(*                                                                         *)
(* Arrays.  A point or tangent field is a function from 0..n_vertices-1 to *)
(* 3-vectors; a per-face array is a sequence over 1..n_faces; a matrix is  *)
(* a sequence of rows.  `faces` is a sequence of triples of 0-based vertex *)
(* indices, corner c of face f being faces[f][c+1].                        *)
(***************************************************************************)
EXTENDS Integers, Sequences, FiniteSets, TLC

VARIABLES
    faces,       \* self.faces
    n_faces,     \* self.n_faces
    n_vertices,  \* self.n_vertices
    shape,       \* self.shape
    a0, a1, b1, c1, d1, a2,   \* the weights of the ElasticMetric
    op,          \* the operation called last, "none" before any call returns
    args,        \* its arguments
    ret          \* what it returned

vars == <<faces, n_faces, n_vertices, shape, a0, a1, b1, c1, d1, a2, op, args, ret>>

topology == <<faces, n_faces, n_vertices, shape>>
weights == <<a0, a1, b1, c1, d1, a2>>

-----------------------------------------------------------------------------
(* Exact rational arithmetic standing for the code's float arithmetic.     *)

RECURSIVE GCD(_, _)
GCD(a, b) == IF b = 0 THEN a ELSE GCD(b, a % b)

Abs(x) == IF x < 0 THEN -x ELSE x

\* n/d in lowest terms, d # 0
Rat(n, d) ==
    IF d = 1 THEN <<n, 1>>
    ELSE LET g == GCD(Abs(n), Abs(d))
             s == IF d < 0 THEN -1 ELSE 1
         IN  <<s * (n \div g), s * (d \div g)>>

R(n) == <<n, 1>>
Zero == <<0, 1>>
Half == <<1, 2>>

\* sums over the least common denominator and products reduced crosswise,
\* so that no intermediate value is larger than the result requires
RAdd(x, y) ==
    IF x[2] = y[2] THEN Rat(x[1] + y[1], x[2])
    ELSE LET g == GCD(x[2], y[2])
         IN  Rat(x[1] * (y[2] \div g) + y[1] * (x[2] \div g), (x[2] \div g) * y[2])
RNeg(x) == <<-x[1], x[2]>>
RSub(x, y) == RAdd(x, RNeg(y))
RMul(x, y) ==
    IF x[2] = 1 /\ y[2] = 1 THEN <<x[1] * y[1], 1>>
    ELSE LET g1 == GCD(Abs(x[1]), y[2])
             g2 == GCD(Abs(y[1]), x[2])
         IN  Rat((x[1] \div g1) * (y[1] \div g2), (x[2] \div g2) * (y[2] \div g1))
\* y # 0
RDiv(x, y) == RMul(x, IF y[1] < 0 THEN <<-y[2], -y[1]>> ELSE <<y[2], y[1]>>)
RLess(x, y) == x[1] * y[2] < y[1] * x[2]

\* the exact root of a perfect square (no value otherwise)
ISqrt(n) == CHOOSE r \in 0..n : r * r = n
RSqrt(x) == <<ISqrt(x[1]), ISqrt(x[2])>>

\* ndarray.clip(min=m)
Clip(x, m) == IF RLess(x, m) THEN m ELSE x

\* the statements of the code run in order: `first` is computed and bound,
\* then `rest` is computed from it
Then(first, rest(_)) == <<first, rest(first)>>[2]

\* an array whose entries are computed once, when it is built
Arr(f) == IF f = f THEN f ELSE f

RECURSIVE RSumFn(_, _)
\* gs.sum of the entries f[x], x in S
RSumFn(f, S) ==
    IF S = {} THEN Zero
    ELSE LET first == CHOOSE e \in S : TRUE
         IN  RAdd(f[first], RSumFn(f, S \ {first}))

-----------------------------------------------------------------------------
(* 3-vectors and small matrices.                                            *)

VAdd(u, v) == <<RAdd(u[1], v[1]), RAdd(u[2], v[2]), RAdd(u[3], v[3])>>
VSub(u, v) == <<RSub(u[1], v[1]), RSub(u[2], v[2]), RSub(u[3], v[3])>>
VScale(r, u) == <<RMul(r, u[1]), RMul(r, u[2]), RMul(r, u[3])>>
Dot(u, v) == RAdd(RAdd(RMul(u[1], v[1]), RMul(u[2], v[2])), RMul(u[3], v[3]))
\* gs.linalg.norm(., axis=-1)
VNorm(u) == RSqrt(Dot(u, u))
\* gs.cross
Cross(u, v) ==
    << RSub(RMul(u[2], v[3]), RMul(u[3], v[2])),
       RSub(RMul(u[3], v[1]), RMul(u[1], v[3])),
       RSub(RMul(u[1], v[2]), RMul(u[2], v[1])) >>

\* gs.transpose of the last two axes
Transpose(A) == Arr([j \in 1..Len(A[1]) |-> [i \in 1..Len(A) |-> A[i][j]]])
\* gs.matmul
MatMul(A, B) ==
    Arr([i \in 1..Len(A) |-> [j \in 1..Len(B[1]) |->
        RSumFn([l \in 1..Len(B) |-> RMul(A[i][l], B[l][j])], 1..Len(B))]])
MatSub(A, B) ==
    Arr([i \in 1..Len(A) |-> [j \in 1..Len(A[1]) |-> RSub(A[i][j], B[i][j])]])
\* gs.einsum("...bii->...b", .)
Trace(A) == RSumFn([i \in 1..Len(A) |-> A[i][i]], 1..Len(A))
\* gs.linalg.det of a 2x2 matrix
Det(A) == RSub(RMul(A[1][1], A[2][2]), RMul(A[1][2], A[2][1]))
\* gs.linalg.inv of a 2x2 matrix of nonzero determinant
Inv(A) ==
    Then(Det(A), LAMBDA det :
    << <<RDiv(A[2][2], det), RDiv(RSub(Zero, A[1][2]), det)>>,
       <<RDiv(RSub(Zero, A[2][1]), det), RDiv(A[1][1], det)>> >>)

\* point + tangent vector
FieldAdd(p, h) == Arr([v \in DOMAIN p |-> VAdd(p[v], h[v])])
FieldScale(r, h) == Arr([v \in DOMAIN h |-> VScale(r, h[v])])

-----------------------------------------------------------------------------
(* DiscreteSurfaces.                                                        *)

\* DiscreteSurfaces.__init__: the fields derived from the face array
\* gs.amax(self.faces)
amax(fs) ==
    LET S == {fs[f][c] : f \in 1..Len(fs), c \in 1..3}
    IN  CHOOSE m \in S : \A x \in S : x <= m
ambient_dim == 3

\* Manifold.point_ndim, the number of axes of one point
point_ndim == Len(shape)

\* tuple[-n:] and tuple[:-n] of Python
Suffix(s, n) == IF Len(s) <= n THEN s ELSE SubSeq(s, Len(s) - n + 1, Len(s))
Prefix(s, n) == IF Len(s) <= n THEN <<>> ELSE SubSeq(s, 1, Len(s) - n)

\* belongs, on the shape of `point`: a boolean array of shape ret.shape
\* all of whose entries are ret.value
belongs(point_shape) ==
    [value |-> shape = Suffix(point_shape, point_ndim),
     shape |-> Prefix(point_shape, point_ndim)]

\* is_tangent, on the shape of `vector` and on `base_point`, which is
\* [is_none |-> TRUE] for None and else an array of shape base_point.shape
is_tangent(vector_shape, base_point) ==
    Then(belongs(vector_shape), LAMBDA belongs_ :
    IF ~base_point.is_none /\ Len(base_point.shape) > Len(vector_shape)
    THEN [value |-> belongs_.value, shape |-> Prefix(base_point.shape, point_ndim)]
    ELSE belongs_)

\* Arrays as objects.  `memory` is the sequence of the arrays that exist, an
\* array reference is its index in memory, and memory[a] is the content of
\* array a.  gs.copy(a): a new array with the content of a
copy(memory, a) == [memory |-> Append(memory, memory[a]), ref |-> Len(memory) + 1]

\* a variant of to_tangent that returns `vector` itself
to_tangent_alias(memory, vector, base_point) == [memory |-> memory, ref |-> vector]

to_tangent(memory, vector, base_point) == copy(memory, vector)

projection(memory, point) == copy(memory, point)

\* random_point: `samples` is what self.ambient_manifold.random_point returns,
\* n_samples * n_vertices rows of 3 coordinates, row j being samples[j]
random_point(n_samples, samples) ==
    Then(Arr([s \in 1..n_samples |->
             [v \in 0..(n_vertices - 1) |-> samples[(s - 1) * n_vertices + v]]]),
         LAMBDA vertices :
    IF n_samples = 1
    THEN [shape |-> <<n_vertices, 3>>, data |-> vertices[1]]
    ELSE [shape |-> <<n_samples, n_vertices, 3>>, data |-> vertices])

\* _vertices: vertex_i, the coordinates of corner i of every face
_vertices(point, i) == Arr([f \in 1..n_faces |-> point[faces[f][i + 1]]])

\* the floor of the Heron radicand
ClipMin == <<1, 1000000>>

\* the three edge lengths of every face
EdgeLengths(vertex_0, vertex_1, vertex_2) ==
    [len_edge_12 |-> Arr([f \in 1..n_faces |-> VNorm(VSub(vertex_1[f], vertex_2[f]))]),
     len_edge_02 |-> Arr([f \in 1..n_faces |-> VNorm(VSub(vertex_0[f], vertex_2[f]))]),
     len_edge_01 |-> Arr([f \in 1..n_faces |-> VNorm(VSub(vertex_0[f], vertex_1[f]))])]

\* a variant of HeronAreas whose floor is 1e-4
HeronAreas_other_floor(len) ==
    Then(Arr([f \in 1..n_faces |->
            RMul(Half, RAdd(RAdd(len.len_edge_12[f], len.len_edge_02[f]),
                            len.len_edge_01[f]))]),
         LAMBDA half_perimeter :
    Arr([f \in 1..n_faces |->
        RSqrt(Clip(RMul(RMul(RMul(half_perimeter[f],
                                  RSub(half_perimeter[f], len.len_edge_12[f])),
                             RSub(half_perimeter[f], len.len_edge_02[f])),
                        RSub(half_perimeter[f], len.len_edge_01[f])),
                   <<1, 10000>>))]))

\* Heron's formula with the radicand clipped from below
HeronAreas(len) ==
    Then(Arr([f \in 1..n_faces |->
            RMul(Half, RAdd(RAdd(len.len_edge_12[f], len.len_edge_02[f]),
                            len.len_edge_01[f]))]),
         LAMBDA half_perimeter :
    Arr([f \in 1..n_faces |->
        RSqrt(Clip(RMul(RMul(RMul(half_perimeter[f],
                                  RSub(half_perimeter[f], len.len_edge_12[f])),
                             RSub(half_perimeter[f], len.len_edge_02[f])),
                        RSub(half_perimeter[f], len.len_edge_01[f])),
                   ClipMin))]))

_triangle_areas(point) ==
    Then(_vertices(point, 0), LAMBDA vertex_0 :
    Then(_vertices(point, 1), LAMBDA vertex_1 :
    Then(_vertices(point, 2), LAMBDA vertex_2 :
    Then(EdgeLengths(vertex_0, vertex_1, vertex_2), LAMBDA len :
    HeronAreas(len)))))

\* gs.scatter_add along the last axis: input[index[j]] += src[j] for every j
scatter_add(input, index, src) ==
    Arr([v \in DOMAIN input |->
        RAdd(input[v], RSumFn(src, {j \in DOMAIN index : index[j] = v}))])

\* gs.flatten(self.faces): cell j is corner j % 3 of face j // 3
FlattenFaces ==
    Arr([j \in 0..(3 * n_faces - 1) |-> faces[(j \div 3) + 1][(j % 3) + 1]])

\* reshape(broadcast_to(expand_dims(area, -2), (3, n_faces)), -1):
\* the area array repeated three times, cell j holding area[j % n_faces]
BroadcastAreas(area) ==
    Arr([j \in 0..(3 * n_faces - 1) |-> area[(j % n_faces) + 1]])

\* a variant of vertex_areas that divides the incident areas by 3 and does not
\* double them
vertex_areas_undoubled(point) ==
    Then(_triangle_areas(point), LAMBDA area :
    Then(scatter_add([v \in DOMAIN point |-> Zero], FlattenFaces, BroadcastAreas(area)),
         LAMBDA incident_areas :
    Arr([v \in DOMAIN point |-> RDiv(incident_areas[v], R(3))])))

vertex_areas(point) ==
    Then(_triangle_areas(point), LAMBDA area :
    Then(FlattenFaces, LAMBDA id_vertices :
    Then(BroadcastAreas(area), LAMBDA val :
    Then(scatter_add([v \in DOMAIN point |-> Zero], id_vertices, val),
         LAMBDA incident_areas :
    Arr([v \in DOMAIN point |-> RDiv(RMul(R(2), incident_areas[v]), R(3))])))))

\* a variant of normals with the cross product of the wrong pair of edges,
\* v1 - v0 and v2 - v1 - v0
normals_wrong_edge(point) ==
    Then(_vertices(point, 0), LAMBDA vertex_0 :
    Then(_vertices(point, 1), LAMBDA vertex_1 :
    Then(_vertices(point, 2), LAMBDA vertex_2 :
    Arr([f \in 1..n_faces |->
        VScale(Half, Cross(VSub(vertex_1[f], vertex_0[f]),
                           VSub(VSub(vertex_2[f], vertex_1[f]), vertex_0[f])))]))))

normals(point) ==
    Then(_vertices(point, 0), LAMBDA vertex_0 :
    Then(_vertices(point, 1), LAMBDA vertex_1 :
    Then(_vertices(point, 2), LAMBDA vertex_2 :
    Arr([f \in 1..n_faces |->
        VScale(Half, Cross(VSub(vertex_1[f], vertex_0[f]),
                           VSub(vertex_2[f], vertex_0[f])))]))))

surface_one_forms(point) ==
    Then(_vertices(point, 0), LAMBDA vertex_0 :
    Then(_vertices(point, 1), LAMBDA vertex_1 :
    Then(_vertices(point, 2), LAMBDA vertex_2 :
    Arr([f \in 1..n_faces |->
        <<VSub(vertex_1[f], vertex_0[f]), VSub(vertex_2[f], vertex_0[f])>>]))))

_surface_metric_matrices_from_one_forms(one_forms) ==
    Arr([f \in 1..Len(one_forms) |-> MatMul(one_forms[f], Transpose(one_forms[f]))])

surface_metric_matrices(point) ==
    Then(surface_one_forms(point), LAMBDA one_forms :
    _surface_metric_matrices_from_one_forms(one_forms))

\* a variant of face_areas without the square root
face_areas_no_sqrt(point) ==
    Then(surface_metric_matrices(point), LAMBDA surface_metrics :
    Arr([f \in 1..n_faces |-> Det(surface_metrics[f])]))

face_areas(point) ==
    Then(surface_metric_matrices(point), LAMBDA surface_metrics :
    Arr([f \in 1..n_faces |-> RSqrt(Det(surface_metrics[f]))]))

\* the cotangent weights of every face, stacked as (cot_12, cot_02, cot_01)
\* and halved
Cotangents(len, area) ==
    Then([sq_len_edge_12 |->
              Arr([f \in 1..n_faces |-> RMul(len.len_edge_12[f], len.len_edge_12[f])]),
          sq_len_edge_02 |->
              Arr([f \in 1..n_faces |-> RMul(len.len_edge_02[f], len.len_edge_02[f])]),
          sq_len_edge_01 |->
              Arr([f \in 1..n_faces |-> RMul(len.len_edge_01[f], len.len_edge_01[f])])],
         LAMBDA sq :
    Arr([f \in 1..n_faces |->
        << RDiv(RDiv(RSub(RAdd(sq.sq_len_edge_02[f], sq.sq_len_edge_01[f]),
                          sq.sq_len_edge_12[f]), area[f]), R(2)),
           RDiv(RDiv(RSub(RAdd(sq.sq_len_edge_12[f], sq.sq_len_edge_01[f]),
                          sq.sq_len_edge_02[f]), area[f]), R(2)),
           RDiv(RDiv(RSub(RAdd(sq.sq_len_edge_12[f], sq.sq_len_edge_02[f]),
                          sq.sq_len_edge_01[f]), area[f]), R(2)) >>]))

\* gs.reshape of an (n_faces, 3) array to n_faces * 3 cells, and gs.flatten
Flatten(a) == Arr([j \in 0..(3 * Len(a) - 1) |-> a[(j \div 3) + 1][(j % 3) + 1]])

\* laplacian(point): what the returned closure holds, the flattened cotangent
\* weights, the two rows of id_vertices and the number of vertices
laplacian(point) ==
    Then(_vertices(point, 0), LAMBDA vertex_0 :
    Then(_vertices(point, 1), LAMBDA vertex_1 :
    Then(_vertices(point, 2), LAMBDA vertex_2 :
    Then(EdgeLengths(vertex_0, vertex_1, vertex_2), LAMBDA len :
    Then(HeronAreas(len), LAMBDA area :
    Then(Cotangents(len, area), LAMBDA cot :
    Then(Arr([f \in 1..n_faces |-> <<faces[f][2], faces[f][3], faces[f][1]>>]),
         LAMBDA id_vertices_120 :
    Then(Arr([f \in 1..n_faces |-> <<faces[f][3], faces[f][1], faces[f][2]>>]),
         LAMBDA id_vertices_201 :
    [cot |-> Flatten(cot),
     id_vertices |-> <<Flatten(id_vertices_120), Flatten(id_vertices_201)>>,
     vertices |-> DOMAIN point]))))))))

\* a variant of _laplacian that weights the squared differences, which is
\* not linear in tangent_vec
_laplacian_squared(lap, tangent_vec) ==
    Then(Arr([j \in DOMAIN lap.cot |->
            VSub(tangent_vec[lap.id_vertices[1][j]], tangent_vec[lap.id_vertices[2][j]])]),
         LAMBDA tangent_vec_diff :
    Then(Arr([j \in DOMAIN lap.cot |->
            VScale(RMul(lap.cot[j], Dot(tangent_vec_diff[j], tangent_vec_diff[j])),
                   tangent_vec_diff[j])]),
         LAMBDA values :
    Then(Arr([i_dim \in 1..3 |->
            scatter_add([v \in lap.vertices |-> Zero], lap.id_vertices[2],
                        Arr([j \in DOMAIN lap.cot |-> values[j][i_dim]]))]),
         LAMBDA column :
    Arr([v \in lap.vertices |-> <<column[1][v], column[2][v], column[3][v]>>]))))

\* _laplacian(tangent_vec) of the closure `lap`, for one field of the batch
_laplacian(lap, tangent_vec) ==
    Then(Arr([j \in DOMAIN lap.cot |->
            VSub(tangent_vec[lap.id_vertices[1][j]], tangent_vec[lap.id_vertices[2][j]])]),
         LAMBDA tangent_vec_diff :
    Then(Arr([j \in DOMAIN lap.cot |-> VScale(lap.cot[j], tangent_vec_diff[j])]),
         LAMBDA values :
    Then(Arr([i_dim \in 1..3 |->
            scatter_add([v \in lap.vertices |-> Zero], lap.id_vertices[2],
                        Arr([j \in DOMAIN lap.cot |-> values[j][i_dim]]))]),
         LAMBDA column :
    Arr([v \in lap.vertices |-> <<column[1][v], column[2][v], column[3][v]>>]))))

\* a variant of the closure that accumulates every contribution at vertex A,
\* the first row of id_vertices, instead of vertex B
laplacian_at_tangent_vec_at_A(lap, tangent_vec) ==
    Then(tangent_vec.ndim = 2, LAMBDA to_squeeze :
    Then(Len(tangent_vec.data), LAMBDA n_tangent_vecs :
    Then(Arr([n \in 1..n_tangent_vecs |-> [j \in DOMAIN lap.cot |->
            VSub(tangent_vec.data[n][lap.id_vertices[1][j]],
                 tangent_vec.data[n][lap.id_vertices[2][j]])]]),
         LAMBDA tangent_vec_diff :
    Then(Arr([n \in 1..n_tangent_vecs |-> [j \in DOMAIN lap.cot |->
            VScale(lap.cot[j], tangent_vec_diff[n][j])]]),
         LAMBDA values :
    Then(Arr([n \in 1..n_tangent_vecs |-> lap.id_vertices[1]]),
         LAMBDA id_vertices_201_repeated :
    Then(Arr([i_dim \in 1..3 |-> [n \in 1..n_tangent_vecs |->
            scatter_add([v \in lap.vertices |-> Zero], id_vertices_201_repeated[n],
                        Arr([j \in DOMAIN lap.cot |-> values[n][j][i_dim]]))]]),
         LAMBDA column :
    Then(Arr([n \in 1..n_tangent_vecs |-> [v \in lap.vertices |->
            <<column[1][n][v], column[2][n][v], column[3][n][v]>>]]),
         LAMBDA result :
    [ndim |-> IF to_squeeze THEN 2 ELSE 3, data |-> result])))))))

\* the closure _laplacian(tangent_vec) on a tangent argument [ndim, data]:
\* one field (ndim = 2, expanded to a batch of one and squeezed at the end)
\* or a batch of fields; gs.scatter_add with dim=1 acts on every row
laplacian_at_tangent_vec(lap, tangent_vec) ==
    Then(tangent_vec.ndim = 2, LAMBDA to_squeeze :
    Then(Len(tangent_vec.data), LAMBDA n_tangent_vecs :
    Then(Arr([n \in 1..n_tangent_vecs |-> [j \in DOMAIN lap.cot |->
            VSub(tangent_vec.data[n][lap.id_vertices[1][j]],
                 tangent_vec.data[n][lap.id_vertices[2][j]])]]),
         LAMBDA tangent_vec_diff :
    Then(Arr([n \in 1..n_tangent_vecs |-> [j \in DOMAIN lap.cot |->
            VScale(lap.cot[j], tangent_vec_diff[n][j])]]),
         LAMBDA values :
    Then(Arr([n \in 1..n_tangent_vecs |-> lap.id_vertices[2]]),
         LAMBDA id_vertices_201_repeated :
    Then(Arr([i_dim \in 1..3 |-> [n \in 1..n_tangent_vecs |->
            scatter_add([v \in lap.vertices |-> Zero], id_vertices_201_repeated[n],
                        Arr([j \in DOMAIN lap.cot |-> values[n][j][i_dim]]))]]),
         LAMBDA column :
    Then(Arr([n \in 1..n_tangent_vecs |-> [v \in lap.vertices |->
            <<column[1][n][v], column[2][n][v], column[3][n][v]>>]]),
         LAMBDA result :
    [ndim |-> IF to_squeeze THEN 2 ELSE 3, data |-> result])))))))

-----------------------------------------------------------------------------
(* ElasticMetric.inner_product.  A tangent argument is [ndim, data]: data   *)
(* is the sequence of the fields of the batch, and ndim = 2 is one field    *)
(* without a batch axis.  The operators A0Sum .. B1Sum are the sums each    *)
(* term multiplies by its weight, for one pair of fields of the batch.      *)

\* a variant of A0Sum that pairs h with itself
A0Sum_one_sided(h, k, v_areas) ==
    RSumFn([v \in DOMAIN v_areas |-> RMul(v_areas[v], Dot(h[v], h[v]))],
           DOMAIN v_areas)

\* a variant of A0Sum without the vertex areas
A0Sum_unweighted(h, k, v_areas) ==
    RSumFn([v \in DOMAIN v_areas |-> Dot(h[v], k[v])], DOMAIN v_areas)

\* gs.sum(v_areas * einsum("...bi,...bi->...b", h, k), axis=-1)
A0Sum(h, k, v_areas) ==
    RSumFn([v \in DOMAIN v_areas |-> RMul(v_areas[v], Dot(h[v], k[v]))],
           DOMAIN v_areas)

\* gs.sum(einsum(laplacian(h), laplacian(k)) / v_areas, axis=-1)
A2Sum(h, k, v_areas, laplacian_at_base_point) ==
    Then(_laplacian(laplacian_at_base_point, h), LAMBDA lh :
    Then(_laplacian(laplacian_at_base_point, k), LAMBDA lk :
    RSumFn([v \in DOMAIN v_areas |-> RDiv(Dot(lh[v], lk[v]), v_areas[v])],
           DOMAIN v_areas)))

\* what the first-order terms share: the one-forms and the metric matrices
\* at the base point, the areas and the normals
FirstOrder(base_point) ==
    Then(surface_one_forms(base_point), LAMBDA one_forms_base_point :
    Then(_surface_metric_matrices_from_one_forms(one_forms_base_point),
         LAMBDA surface_metrics :
    [one_forms_base_point |-> one_forms_base_point,
     surface_metrics |-> surface_metrics,
     areas |-> Arr([f \in 1..n_faces |-> RSqrt(Det(surface_metrics[f]))]),
     normals_at_base_point |-> normals(base_point)]))

\* gs.sum(einsum("...bi,...bi->...b", dn1, dn2) * areas, axis=-1)
C1Sum(point_a, point_b, fo) ==
    Then(normals(point_a), LAMBDA normals_a :
    Then(normals(point_b), LAMBDA normals_b :
    Then(Arr([f \in 1..n_faces |-> VSub(normals_a[f], fo.normals_at_base_point[f])]),
         LAMBDA dn1 :
    Then(Arr([f \in 1..n_faces |-> VSub(normals_b[f], fo.normals_at_base_point[f])]),
         LAMBDA dn2 :
    RSumFn([f \in 1..n_faces |-> RMul(Dot(dn1[f], dn2[f]), fo.areas[f])],
           1..n_faces)))))

\* ginv = gs.linalg.inv(surface_metrics)
Ginv(surface_metrics) == Arr([f \in 1..n_faces |-> Inv(surface_metrics[f])])

\* xi1_0 (and xi2_0) of the d1 term, for every face
Xi0(one_forms_x, fo, ginv) ==
    Arr([f \in 1..n_faces |->
        Then(Transpose(fo.one_forms_base_point[f]), LAMBDA one_forms_base_point_t :
        Then(MatSub(Transpose(one_forms_x[f]), one_forms_base_point_t), LAMBDA xi :
        MatMul(MatMul(one_forms_base_point_t, ginv[f]),
               MatSub(MatMul(Transpose(xi), one_forms_base_point_t),
                      MatMul(fo.one_forms_base_point[f], xi)))))])

\* einsum("...bii->...b", xi1_0 ginv xi2_0^T) * areas, summed over the faces
\* of one batch element
D1Sum(one_forms_a, one_forms_b, fo, ginv) ==
    Then(Xi0(one_forms_a, fo, ginv), LAMBDA xi1_0 :
    Then(Xi0(one_forms_b, fo, ginv), LAMBDA xi2_0 :
    RSumFn([f \in 1..n_faces |->
               RMul(Trace(MatMul(xi1_0[f], MatMul(ginv[f], Transpose(xi2_0[f])))),
                    fo.areas[f])],
           1..n_faces)))

\* ginvdg1 (and ginvdg2) of the a1 and b1 terms
GinvDg(one_forms_x, fo, ginv) ==
    Arr([f \in 1..n_faces |->
        MatMul(ginv[f],
               MatSub(MatMul(one_forms_x[f], Transpose(one_forms_x[f])),
                      fo.surface_metrics[f]))])

\* gs.sum(einsum("...bii->...b", ginvdg1 ginvdg2) * areas, axis=-1)
A1Sum(ginvdg1, ginvdg2, areas) ==
    RSumFn([f \in 1..n_faces |->
               RMul(Trace(MatMul(ginvdg1[f], ginvdg2[f])), areas[f])],
           1..n_faces)

\* gs.sum(einsum(ginvdg1) * einsum(ginvdg2) * areas, axis=-1)
B1Sum(ginvdg1, ginvdg2, areas) ==
    RSumFn([f \in 1..n_faces |->
               RMul(RMul(Trace(ginvdg1[f]), Trace(ginvdg2[f])), areas[f])],
           1..n_faces)

Terms == {"a0", "a1", "b1", "c1", "d1", "a2"}

Weight(t) ==
    CASE t = "a0" -> a0 [] t = "a1" -> a1 [] t = "b1" -> b1
      [] t = "c1" -> c1 [] t = "d1" -> d1 [] t = "a2" -> a2

\* the terms whose line `inner_prod += ...` the control flow reaches
EvaluatedTerms ==
    (IF (a0 > 0 \/ a2 > 0) /\ a0 > 0 THEN {"a0"} ELSE {})
    \cup (IF (a0 > 0 \/ a2 > 0) /\ a2 > 0 THEN {"a2"} ELSE {})
    \cup (IF a1 > 0 \/ b1 > 0 \/ c1 > 0 \/ b1 > 0
          THEN (IF c1 > 0 THEN {"c1"} ELSE {})
               \cup (IF d1 > 0 \/ b1 > 0 \/ a1 > 0
                     THEN (IF d1 > 0 THEN {"d1"} ELSE {})
                          \cup (IF b1 > 0 \/ a1 > 0 THEN {"a1", "b1"} ELSE {})
                     ELSE {})
          ELSE {})

\* the transposes with axes (0, 1, 3, 2) are reached
ReachesTranspose ==
    /\ a1 > 0 \/ b1 > 0 \/ c1 > 0 \/ b1 > 0
    /\ d1 > 0 \/ b1 > 0 \/ a1 > 0

\* broadcasting of the scalar 0 over a batch, and the sum of two batches
Zeros(batch) == Arr([i \in DOMAIN batch |-> Zero])
BatchAdd(x, y) == Arr([i \in DOMAIN x |-> RAdd(x[i], y[i])])

\* the block `if self.a0 > 0 or self.a2 > 0`: what it adds to inner_prod,
\* for every pair (h[i], k[i]) of the batch
MassTerms(h, k, base_point) ==
    IF a0 > 0 \/ a2 > 0
    THEN Then(vertex_areas(base_point), LAMBDA v_areas :
         Then(IF a0 > 0
              THEN Arr([i \in DOMAIN h |-> RMul(R(a0), A0Sum(h[i], k[i], v_areas))])
              ELSE Zeros(h),
              LAMBDA a0_term :
         Then(IF a2 > 0
              THEN Then(laplacian(base_point), LAMBDA laplacian_at_base_point :
                   Arr([i \in DOMAIN h |->
                       RMul(R(a2), A2Sum(h[i], k[i], v_areas, laplacian_at_base_point))]))
              ELSE Zeros(h),
              LAMBDA a2_term :
         BatchAdd(a0_term, a2_term))))
    ELSE Zeros(h)

\* the block `if self.d1 > 0 or self.b1 > 0 or self.a1 > 0`.  The sum of the
\* d1 term has no axis: it runs over the faces and over the batch, and the
\* one total is added to every element.
MetricChangeTerms(point_a, point_b, fo) ==
    Then(Ginv(fo.surface_metrics), LAMBDA ginv :
    Then(Arr([i \in DOMAIN point_a |-> surface_one_forms(point_a[i])]),
         LAMBDA one_forms_a :
    Then(Arr([i \in DOMAIN point_b |-> surface_one_forms(point_b[i])]),
         LAMBDA one_forms_b :
    Then(IF d1 > 0
         THEN RMul(R(d1),
                   RSumFn(Arr([i \in DOMAIN point_a |->
                                  D1Sum(one_forms_a[i], one_forms_b[i], fo, ginv)]),
                          DOMAIN point_a))
         ELSE Zero,
         LAMBDA d1_term :
    Then(IF b1 > 0 \/ a1 > 0
         THEN Then(Arr([i \in DOMAIN point_a |-> GinvDg(one_forms_a[i], fo, ginv)]),
                   LAMBDA ginvdg1 :
              Then(Arr([i \in DOMAIN point_b |-> GinvDg(one_forms_b[i], fo, ginv)]),
                   LAMBDA ginvdg2 :
              Arr([i \in DOMAIN point_a |->
                  RAdd(RMul(R(a1), A1Sum(ginvdg1[i], ginvdg2[i], fo.areas)),
                       RMul(R(b1), B1Sum(ginvdg1[i], ginvdg2[i], fo.areas)))])))
         ELSE Zeros(point_a),
         LAMBDA a1_b1_terms :
    Arr([i \in DOMAIN point_a |-> RAdd(d1_term, a1_b1_terms[i])]))))))

\* the block `if self.a1 > 0 or self.b1 > 0 or self.c1 > 0 or self.b1 > 0`
FirstOrderTerms(point_a, point_b, base_point) ==
    IF a1 > 0 \/ b1 > 0 \/ c1 > 0 \/ b1 > 0
    THEN Then(FirstOrder(base_point), LAMBDA fo :
         Then(IF c1 > 0
              THEN Arr([i \in DOMAIN point_a |->
                       RMul(R(c1), C1Sum(point_a[i], point_b[i], fo))])
              ELSE Zeros(point_a),
              LAMBDA c1_term :
         Then(IF d1 > 0 \/ b1 > 0 \/ a1 > 0
              THEN MetricChangeTerms(point_a, point_b, fo)
              ELSE Zeros(point_a),
              LAMBDA metric_change_terms :
         BatchAdd(c1_term, metric_change_terms))))
    ELSE Zeros(point_a)

\* inner_product: status "ok" with the value array `data` of shape `shape`
\* (<<>>: a scalar, data of length 1), or "error" when a transpose with axes
\* (0, 1, 3, 2) is applied to the one-forms of an unbatched tangent vector.
\* `evaluated` records the terms whose line was executed.
inner_product(tangent_vec_a, tangent_vec_b, base_point) ==
    Then(EvaluatedTerms, LAMBDA evaluated :
    IF tangent_vec_a.ndim = 2 /\ ReachesTranspose
    THEN [status |-> "error", evaluated |-> evaluated, shape |-> <<>>, data |-> <<>>]
    ELSE
    Then(Arr([i \in DOMAIN tangent_vec_a.data |->
            FieldAdd(base_point, tangent_vec_a.data[i])]), LAMBDA point_a :
    Then(Arr([i \in DOMAIN tangent_vec_b.data |->
            FieldAdd(base_point, tangent_vec_b.data[i])]), LAMBDA point_b :
    Then(MassTerms(tangent_vec_a.data, tangent_vec_b.data, base_point),
         LAMBDA mass_terms :
    Then(FirstOrderTerms(point_a, point_b, base_point),
         LAMBDA first_order_terms :
    Then(BatchAdd(mass_terms, first_order_terms), LAMBDA inner_prod :
    IF tangent_vec_a.ndim = 2 \/ evaluated = {}
    THEN [status |-> "ok", evaluated |-> evaluated, shape |-> <<>>,
          data |-> <<inner_prod[1]>>]
    ELSE [status |-> "ok", evaluated |-> evaluated,
          shape |-> <<Len(tangent_vec_a.data)>>, data |-> inner_prod]))))))

-----------------------------------------------------------------------------
(* The inputs the calls are drawn from.                                     *)

MaxWeight == 1
MaxBatch == 2
MaxTan == 1
MaxScalar == 2

\* the triangulations: one face, two faces sharing an edge, a fan of three
Topologies ==
    { << <<0, 1, 2>> >>,
      << <<0, 1, 2>>, <<0, 2, 3>> >>,
      << <<0, 1, 2>>, <<0, 2, 3>>, <<0, 3, 1>> >> }

Vertices == 0..(n_vertices - 1)

Vec(x, y, z) == <<R(x), R(y), R(z)>>

\* lattice points at integer distance from one another
Lattice == {Vec(0, 0, 0), Vec(3, 0, 0), Vec(-3, 0, 0), Vec(0, 4, 0), Vec(0, -4, 0)}

\* surfaces with distinct vertices on the lattice, the first two at
\* (3, 0, 0) and (-3, 0, 0); a face through (0, 0, 0) and both is flat
Surfaces ==
    {q \in [Vertices -> Lattice] :
        /\ q[0] = Vec(3, 0, 0)
        /\ q[1] = Vec(-3, 0, 0)
        /\ \A v, w \in Vertices : v # w => q[v] # q[w]}

\* no face of q is flat: every surface metric matrix is invertible
NonDegenerate(q) ==
    \A f \in 1..n_faces : Det(surface_metric_matrices(q)[f]) # Zero

\* tangent fields: zero, the translation (1,0,0), and one vertex v moved by
\* m along axis (v % 3) + 1
ZeroField == [v \in Vertices |-> Vec(0, 0, 0)]
Translation == [v \in Vertices |-> Vec(1, 0, 0)]
Delta(w, m) ==
    [v \in Vertices |->
        IF v = w THEN [i \in 1..3 |-> IF i = (w % 3) + 1 THEN R(m) ELSE Zero]
        ELSE Vec(0, 0, 0)]
Fields ==
    {ZeroField, Translation} \cup {Delta(w, m) : w \in Vertices, m \in 1..MaxTan}

\* the first and the second arguments of the inner product
HFields ==
    {Translation} \cup {Delta(w, m) : w \in {0, n_vertices - 1}, m \in 1..MaxTan}
KFields == {Translation, Delta(n_vertices - 1, 1)}

\* the contents of the arrays given to to_tangent and projection
ArrayValues == {ZeroField, Translation, Delta(0, 1)}

\* the six weights: at most two terms switched on, or all six, at one level
WeightConfigs ==
    {[t \in Terms |-> IF t \in on THEN w ELSE 0] :
        on \in {S \in SUBSET Terms : Cardinality(S) <= 2 \/ S = Terms},
        w \in 1..MaxWeight}

\* a tangent argument without batch axis, and the batch <<h, 2h, ..., Bh>>
Single(h) == [ndim |-> 2, data |-> <<h>>]
Scaled(h, B) == [ndim |-> 3, data |-> [b \in 1..B |-> FieldScale(R(b), h)]]
Repeated(k, B) == [ndim |-> 3, data |-> [b \in 1..B |-> k]]

\* array shapes: an optional batch axis in front of a trailing shape
Shapes ==
    {b \o t : b \in {<<>>} \cup {<<n>> : n \in 1..MaxBatch},
              t \in {<<n_vertices, 3>>, <<n_vertices + 1, 3>>, <<n_vertices, 2>>, <<3>>}}

\* the base_point argument of is_tangent: None or an array
BasePointArgs ==
    {[is_none |-> TRUE, shape |-> <<>>]}
    \cup {[is_none |-> FALSE, shape |-> s] : s \in Shapes}

-----------------------------------------------------------------------------
(* The state machine: the objects after construction, then calls.           *)

Init ==
    /\ faces \in Topologies
    /\ n_faces = Len(faces)
    /\ n_vertices = amax(faces) + 1
    /\ shape = <<amax(faces) + 1, ambient_dim>>
    /\ \E w \in WeightConfigs :
        /\ a0 = w["a0"]
        /\ a1 = w["a1"]
        /\ b1 = w["b1"]
        /\ c1 = w["c1"]
        /\ d1 = w["d1"]
        /\ a2 = w["a2"]
    /\ op = "none"
    /\ args = <<>>
    /\ ret = <<>>

\* a variant of Call in which the method stores the faces back with their
\* corners rotated, as id_vertices_120 has them
Call_rolls_faces(name, a, r) ==
    /\ op' = name
    /\ args' = a
    /\ ret' = r
    /\ faces' = [f \in 1..n_faces |-> <<faces[f][2], faces[f][3], faces[f][1]>>]
    /\ UNCHANGED <<n_faces, n_vertices, shape, weights>>

Call(name, a, r) ==
    /\ op' = name
    /\ args' = a
    /\ ret' = r
    /\ UNCHANGED <<topology, weights>>

Belongs ==
    /\ op = "none"
    /\ \E point \in Shapes :
        Call("belongs", [point |-> point], belongs(point))

IsTangent ==
    /\ op = "none"
    /\ \E vector \in Shapes, base_point \in BasePointArgs :
        Call("is_tangent", [vector |-> vector, base_point |-> base_point],
             is_tangent(vector, base_point))

\* the arguments are arrays of the caller: `vector` is array 1, `base_point`
\* is array 2 or `vector` again
ToTangent ==
    /\ op = "none"
    /\ \E v \in ArrayValues, b \in ArrayValues, base_point \in {1, 2} :
        LET memory == IF base_point = 1 THEN <<v>> ELSE <<v, b>>
        IN  Call("to_tangent",
                 [memory |-> memory, vector |-> 1, base_point |-> base_point],
                 to_tangent(memory, 1, base_point))

Projection ==
    /\ op = "none"
    /\ \E v \in ArrayValues :
        Call("projection", [memory |-> <<v>>, point |-> 1], projection(<<v>>, 1))

\* the caller, holding the array a copy returned, assigns to one of the
\* arrays in place
SetItem ==
    /\ op \in {"to_tangent", "projection"}
    /\ \E a \in DOMAIN ret.memory, w \in ArrayValues :
        /\ w # ret.memory[a]
        /\ ret' = [ret EXCEPT !.memory[a] = w]
    /\ UNCHANGED <<topology, weights, op, args>>

RandomPoint ==
    /\ op = "none"
    /\ \E n_samples \in 1..MaxBatch :
        \E drawn \in [1..n_samples -> ArrayValues] :
            LET samples == [j \in 0..(n_samples * n_vertices - 1) |->
                               drawn[(j \div n_vertices) + 1][j % n_vertices]]
            IN  Call("random_point", [n_samples |-> n_samples],
                     random_point(n_samples, samples))

VertexAreas ==
    /\ op = "none"
    /\ \E point \in Surfaces :
        Call("vertex_areas", [point |-> point], vertex_areas(point))

Normals ==
    /\ op = "none"
    /\ \E q \in Surfaces, h \in Fields :
        LET point == FieldAdd(q, h)
        IN  Call("normals", [point |-> point], normals(point))

SurfaceOneForms ==
    /\ op = "none"
    /\ \E q \in Surfaces, h \in Fields :
        LET point == FieldAdd(q, h)
        IN  Call("surface_one_forms", [point |-> point], surface_one_forms(point))

SurfaceMetricMatrices ==
    /\ op = "none"
    /\ \E q \in Surfaces, h \in Fields :
        LET point == FieldAdd(q, h)
        IN  Call("surface_metric_matrices", [point |-> point],
                 surface_metric_matrices(point))

FaceAreas ==
    /\ op = "none"
    /\ \E point \in Surfaces :
        Call("face_areas", [point |-> point], face_areas(point))

Laplacian ==
    /\ op = "none"
    /\ \E point \in Surfaces, tangent_vec \in Fields :
        Call("laplacian", [point |-> point, tangent_vec |-> tangent_vec],
             _laplacian(laplacian(point), tangent_vec))

\* laplacian(point) and the closure it returns applied to one field or to a
\* batch of two fields
LaplacianOperator ==
    /\ op = "none"
    /\ \E point \in Surfaces, h \in Fields, k \in KFields, B \in {0, MaxBatch} :
        LET tangent_vec == IF B = 0 THEN Single(h)
                           ELSE [ndim |-> 3,
                                 data |-> [b \in 1..B |-> IF b = 1 THEN h ELSE FieldScale(R(b - 1), k)]]
        IN  Call("laplacian_at_tangent_vec",
                 [point |-> point, tangent_vec |-> tangent_vec],
                 laplacian_at_tangent_vec(laplacian(point), tangent_vec))

InnerProduct ==
    /\ op = "none"
    /\ \E base_point \in {q \in Surfaces : NonDegenerate(q)}, h \in HFields, k \in KFields :
        \E B \in {0, MaxBatch} :
            LET tangent_vec_a == IF B = 0 THEN Single(h) ELSE Scaled(h, B)
                tangent_vec_b == IF B = 0 THEN Single(k) ELSE Repeated(k, B)
            IN  Call("inner_product",
                     [tangent_vec_a |-> tangent_vec_a, tangent_vec_b |-> tangent_vec_b,
                      base_point |-> base_point],
                     inner_product(tangent_vec_a, tangent_vec_b, base_point))

\* the caller drops the result
Return ==
    /\ op # "none"
    /\ op' = "none"
    /\ args' = <<>>
    /\ ret' = <<>>
    /\ UNCHANGED <<topology, weights>>

\* the calls on the DiscreteSurfaces object
SurfaceNext ==
    \/ Belongs
    \/ IsTangent
    \/ ToTangent
    \/ Projection
    \/ SetItem
    \/ RandomPoint
    \/ VertexAreas
    \/ Normals
    \/ SurfaceOneForms
    \/ SurfaceMetricMatrices
    \/ FaceAreas
    \/ Laplacian
    \/ LaplacianOperator
    \/ Return

\* the calls on the ElasticMetric object
MetricNext ==
    \/ InnerProduct
    \/ Return

Next == SurfaceNext \/ MetricNext

Spec == Init /\ [][Next]_vars
SurfaceSpec == Init /\ [][SurfaceNext]_vars
MetricSpec == Init /\ [][MetricNext]_vars

-----------------------------------------------------------------------------
(* The claims.  A call is observed in the state it returns to: op names   *)
(* the operation, args its arguments and ret its result.                    *)

\* the sum of term t for the pair (h, k) at base_point, computed apart from
\* the other terms
TermSum(t, h, k, base_point) ==
    CASE t = "a0" -> A0Sum(h, k, vertex_areas(base_point))
      [] t = "a2" -> A2Sum(h, k, vertex_areas(base_point), laplacian(base_point))
      [] t = "c1" -> C1Sum(FieldAdd(base_point, h), FieldAdd(base_point, k),
                           FirstOrder(base_point))
      [] t = "d1" -> D1Sum(surface_one_forms(FieldAdd(base_point, h)),
                           surface_one_forms(FieldAdd(base_point, k)),
                           FirstOrder(base_point),
                           Ginv(surface_metric_matrices(base_point)))
      [] t = "a1" -> A1Sum(GinvDg(surface_one_forms(FieldAdd(base_point, h)),
                                  FirstOrder(base_point),
                                  Ginv(surface_metric_matrices(base_point))),
                           GinvDg(surface_one_forms(FieldAdd(base_point, k)),
                                  FirstOrder(base_point),
                                  Ginv(surface_metric_matrices(base_point))),
                           FirstOrder(base_point).areas)
      [] t = "b1" -> B1Sum(GinvDg(surface_one_forms(FieldAdd(base_point, h)),
                                  FirstOrder(base_point),
                                  Ginv(surface_metric_matrices(base_point))),
                           GinvDg(surface_one_forms(FieldAdd(base_point, k)),
                                  FirstOrder(base_point),
                                  Ginv(surface_metric_matrices(base_point))),
                           FirstOrder(base_point).areas)

\* a batch of one tangent field
BatchOfOne(h) == [ndim |-> 3, data |-> <<h>>]

\* the weights that are strictly positive
PositiveTerms == {t \in Terms : Weight(t) > 0}

\* exactly the terms of T have a positive weight
OnlyWeights(T) == PositiveTerms = T

\* the (face, corner) cells whose corner is vertex v
CornersAt(v) == {j \in 0..(3 * n_faces - 1) : faces[(j \div 3) + 1][(j % 3) + 1] = v}

\* the sum, over the cells whose corner is v, of the area of the cell's own face
OwnFaceAreaSum(area, v) ==
    RSumFn([j \in CornersAt(v) |-> area[(j \div 3) + 1]], CornersAt(v))

\* C1: vertex_areas(q) at vertex v is 2/3 of the sum, over the (face, corner)
\* pairs whose corner is v, of the triangle area of that same face.
C1_VertexAreaSumsOwnFaces ==
    op = "vertex_areas" =>
        \A v \in Vertices :
            ret[v] = RMul(<<2, 3>>, OwnFaceAreaSum(_triangle_areas(args.point), v))

\* C2: every term of inner_product is evaluated exactly when its own weight
\* is positive, and the result is the sum of the terms of positive weight.
C2_TermsGatedByOwnWeight ==
    (op = "inner_product" /\ ret.status = "ok") =>
        /\ ret.evaluated = PositiveTerms
        /\ \A b \in 1..Len(ret.data) :
            ret.data[b] =
                RSumFn([t \in PositiveTerms |->
                           RMul(R(Weight(t)),
                                TermSum(t, args.tangent_vec_a.data[b],
                                        args.tangent_vec_b.data[b], args.base_point))],
                       PositiveTerms)

\* C3: on a batch, inner_product returns one value per element of the batch,
\* and element i is the inner product of the pair (h_i, k_i) evaluated alone.
C3_BatchElementsIndependent ==
    (op = "inner_product" /\ args.tangent_vec_a.ndim = 3 /\ ret.evaluated # {}) =>
        /\ ret.status = "ok"
        /\ ret.shape = <<Len(args.tangent_vec_a.data)>>
        /\ \A i \in 1..Len(args.tangent_vec_a.data) :
            ret.data[i] =
                inner_product(BatchOfOne(args.tangent_vec_a.data[i]),
                              BatchOfOne(args.tangent_vec_b.data[i]),
                              args.base_point).data[1]

\* C4: inner_product(h, k, q) = inner_product(k, h, q), and each of the
\* terms taken separately is symmetric in h and k (checked on the first pair
\* of the batch, for the terms of positive weight).
C4_InnerProductSymmetric ==
    op = "inner_product" =>
        /\ ret = inner_product(args.tangent_vec_b, args.tangent_vec_a, args.base_point)
        /\ \A t \in PositiveTerms :
            TermSum(t, args.tangent_vec_a.data[1], args.tangent_vec_b.data[1],
                    args.base_point)
            = TermSum(t, args.tangent_vec_b.data[1], args.tangent_vec_a.data[1],
                      args.base_point)

C4_Witness ==
    /\ op = "inner_product"
    /\ PositiveTerms = Terms
    /\ ret.status = "ok"
    /\ Len(ret.data) = MaxBatch
    /\ args.tangent_vec_a.data[1] # args.tangent_vec_b.data[1]
    /\ ret.data[1] # Zero

\* the Heron radicand of a face is above the floor
AboveFloor(area) == RLess(ClipMin, RMul(area, area))

\* C5 as stated: face_areas(q) equals the Heron area of _triangle_areas(q),
\* for every face whose radicand is above the floor.
C5_FaceAreaEqualsHeron ==
    op = "face_areas" =>
        \A f \in 1..n_faces :
            AboveFloor(_triangle_areas(args.point)[f])
                => ret[f] = _triangle_areas(args.point)[f]

\* C5 (amended): face_areas(q) equals twice the Heron area of
\* _triangle_areas(q), for every face whose radicand is above the floor.
C5_FaceAreaTwiceHeron ==
    op = "face_areas" =>
        \A f \in 1..n_faces :
            AboveFloor(_triangle_areas(args.point)[f])
                => ret[f] = RMul(R(2), _triangle_areas(args.point)[f])

C5_Witness ==
    /\ op = "face_areas"
    /\ n_faces = 2
    /\ AboveFloor(_triangle_areas(args.point)[1])
    /\ ret[1] = R(24)
    /\ _triangle_areas(args.point)[1] = R(12)

\* C6: the vertex areas sum to twice the sum of the triangle areas.
C6_VertexAreasConserved ==
    op = "vertex_areas" =>
        RSumFn(ret, Vertices)
        = RMul(R(2), RSumFn(_triangle_areas(args.point), 1..n_faces))

C6_Witness ==
    /\ op = "vertex_areas"
    /\ n_faces = 2
    /\ _triangle_areas(args.point) = <<R(12), R(6)>>
    /\ RSumFn(ret, Vertices) = R(36)
    /\ ret[1] # RMul(<<2, 3>>, OwnFaceAreaSum(_triangle_areas(args.point), 1))

\* C7: with a0 > 0 alone, inner_product(h, k, q) is a0 times the sum over
\* the vertices v of vertex_areas(q)[v] <h_v, k_v>; with a0 = 1 and
\* h = k = (1, 0, 0) at every vertex it is the sum of vertex_areas(q).
C7_MassTermIsWeightedL2 ==
    (op = "inner_product" /\ OnlyWeights({"a0"})) =>
        /\ ret.status = "ok"
        /\ \A b \in 1..Len(ret.data) :
            /\ ret.data[b] =
                RMul(R(a0),
                     RSumFn([v \in Vertices |->
                                RMul(vertex_areas(args.base_point)[v],
                                     Dot(args.tangent_vec_a.data[b][v],
                                         args.tangent_vec_b.data[b][v]))],
                            Vertices))
            /\ (/\ a0 = 1
                /\ args.tangent_vec_a.data[b] = Translation
                /\ args.tangent_vec_b.data[b] = Translation)
               => ret.data[b] = RSumFn(vertex_areas(args.base_point), Vertices)

C7_Witness ==
    /\ op = "inner_product"
    /\ OnlyWeights({"a0"})
    /\ a0 = 1
    /\ args.tangent_vec_a = Single(Translation)
    /\ args.tangent_vec_b = Single(Translation)
    /\ n_faces = 2
    /\ ret.data[1] = RSumFn(vertex_areas(args.base_point), Vertices)
    /\ ret.data[1] # Zero

\* the scalars c of the scaling law
Scalars == (-MaxScalar)..MaxScalar

\* C8: with a1 = b1 = c1 = d1 = 0, inner_product(c h, c h, q) is c^2 times
\* inner_product(h, h, q), for every scalar c.
C8_QuadraticScaling ==
    (/\ op = "inner_product"
     /\ PositiveTerms \subseteq {"a0", "a2"}
     /\ args.tangent_vec_a = args.tangent_vec_b) =>
        \A c \in Scalars :
            LET ch == Single(FieldScale(R(c), args.tangent_vec_a.data[1]))
            IN  inner_product(ch, ch, args.base_point).data[1]
                = RMul(R(c * c), ret.data[1])

C8_Witness ==
    /\ op = "inner_product"
    /\ OnlyWeights({"a2"})
    /\ args.tangent_vec_a = args.tangent_vec_b
    /\ ret.status = "ok"
    /\ ret.data[1] # Zero
    /\ inner_product(Single(FieldScale(R(MaxScalar), args.tangent_vec_a.data[1])),
                     Single(FieldScale(R(MaxScalar), args.tangent_vec_a.data[1])),
                     args.base_point).data[1]
       = RMul(R(MaxScalar * MaxScalar), ret.data[1])

\* C9: the normal of every face is orthogonal to both rows of the face's
\* one-form, the edge vectors v1 - v0 and v2 - v0.
C9_NormalsOrthogonalToEdges ==
    op = "normals" =>
        \A f \in 1..n_faces :
            /\ Dot(ret[f], surface_one_forms(args.point)[f][1]) = Zero
            /\ Dot(ret[f], surface_one_forms(args.point)[f][2]) = Zero

C9_Witness ==
    /\ op = "normals"
    /\ \E f \in 1..n_faces :
        /\ ret[f][1] # Zero
        /\ ret[f][3] # Zero
        /\ Dot(ret[f], surface_one_forms(args.point)[f][1]) = Zero

\* the batch shape of an array of the given shape
BatchShape(array_shape) == Prefix(array_shape, 2)

\* the larger of two batch shapes
Larger(s, t) ==
    IF Len(s) > Len(t) THEN s
    ELSE IF Len(t) > Len(s) THEN t
    ELSE [i \in 1..Len(s) |-> IF s[i] > t[i] THEN s[i] ELSE t[i]]

\* C10: belongs(point) is true exactly when the trailing shape of point is
\* (n_vertices, 3) and has the batch shape of point; is_tangent(vector,
\* base_point) makes the same check on vector and has the larger of the
\* batch shapes of vector and base_point.
C10_ShapeChecks ==
    /\ op = "belongs" =>
        /\ ret.value = (Suffix(args.point, 2) = <<n_vertices, 3>>)
        /\ ret.shape = BatchShape(args.point)
    /\ op = "is_tangent" =>
        /\ ret.value = (Suffix(args.vector, 2) = <<n_vertices, 3>>)
        /\ ret.shape = Larger(BatchShape(args.vector),
                              IF args.base_point.is_none THEN <<>>
                              ELSE BatchShape(args.base_point.shape))

\* the calls that copy their argument, and the argument they copy
Copies == {"to_tangent", "projection"}
CopiedArg(o, a) == IF o = "to_tangent" THEN a.vector ELSE a.point

\* the same operation applied to the array a call returned
Again(o, a, r) ==
    IF o = "to_tangent" THEN to_tangent(r.memory, r.ref, a.base_point)
    ELSE projection(r.memory, r.ref)

\* C11: to_tangent and projection return an array equal to the input, which
\* is a new array and not the input; the input is not modified; applying the
\* operation to the result gives the same content again; and a later
\* assignment to the input or to the result leaves the other one unchanged.
C11_CopyIsIdentity ==
    [][/\ (op = "none" /\ op' \in Copies) =>
            /\ ret'.ref \notin DOMAIN args'.memory
            /\ ret'.memory[ret'.ref] = args'.memory[CopiedArg(op', args')]
            /\ \A a \in DOMAIN args'.memory : ret'.memory[a] = args'.memory[a]
            /\ Again(op', args', ret').memory[Again(op', args', ret').ref]
               = ret'.memory[ret'.ref]
       /\ (op \in Copies /\ op' = op) =>
            /\ ret'.memory[CopiedArg(op, args)] # ret.memory[CopiedArg(op, args)]
                   => ret'.memory[ret.ref] = ret.memory[ret.ref]
            /\ ret'.memory[ret.ref] # ret.memory[ret.ref]
                   => ret'.memory[CopiedArg(op, args)] = ret.memory[CopiedArg(op, args)]
      ]_vars

C11_Witness ==
    /\ op = "to_tangent"
    /\ args.base_point = 2
    /\ ret.ref = 3
    /\ args.memory[args.vector] = Translation
    /\ ret.memory[args.vector] = Translation
    /\ ret.memory[ret.ref] = ZeroField

\* C12: n_faces is the number of face triples, n_vertices the largest vertex
\* index plus one and shape (n_vertices, 3), and no call of an operation of
\* the manifold or of inner_product, and no return, changes the faces,
\* n_faces, n_vertices, shape or any of the six weights.
C12_TopologyFixed ==
    [][/\ n_faces = Len(faces)
       /\ n_vertices = amax(faces) + 1
       /\ shape = <<n_vertices, 3>>
       /\ faces' = faces
       /\ n_faces' = n_faces
       /\ n_vertices' = n_vertices
       /\ shape' = shape
       /\ <<a0', a1', b1', c1', d1', a2'>> = <<a0, a1, b1, c1, d1, a2>>
      ]_vars

C12_Witness ==
    /\ op = "laplacian"
    /\ faces = << <<0, 1, 2>>, <<0, 2, 3>>, <<0, 3, 1>> >>
    /\ n_faces = 3
    /\ n_vertices = 4
    /\ shape = <<4, 3>>
    /\ a2 = 1
    /\ ret # ZeroField

\* vertex i (cyclically) of face f, and the squared length of an edge
Corner(f, i) == faces[f][(i % 3) + 1]
SqLen(point, v, w) == Dot(VSub(point[v], point[w]), VSub(point[v], point[w]))

\* the weight of corner i of face f: the squared lengths of the two edges
\* adjacent to the corner minus that of the opposite edge, over twice the area
CornerWeight(point, area, f, i) ==
    RDiv(RSub(RAdd(SqLen(point, Corner(f, i), Corner(f, i + 1)),
                   SqLen(point, Corner(f, i), Corner(f, i + 2))),
              SqLen(point, Corner(f, i + 1), Corner(f, i + 2))),
         RMul(R(2), area[f]))

\* the (face, corner) cells, and those whose target vertex is B
Cells == (1..n_faces) \X (0..2)
CellsInto(B) == {c \in Cells : Corner(c[1], c[2] + 2) = B}

\* at every vertex B and coordinate d the sum, over the cells whose target
\* vertex is B, of weight * (field[A] - field[B]), with (A, B) the two
\* vertices after the corner
WeightedDifferences(point, field) ==
    Then(_triangle_areas(point), LAMBDA area :
    Then(Arr([c \in Cells |-> CornerWeight(point, area, c[1], c[2])]), LAMBDA weight :
    Arr([B \in Vertices |-> [d \in 1..3 |->
        RSumFn([c \in CellsInto(B) |->
                   RMul(weight[c], RSub(field[Corner(c[1], c[2] + 1)][d], field[B][d]))],
               CellsInto(B))]])))

\* C13: the operator returned by laplacian(q), applied to a field, gives at
\* every vertex B and coordinate the sum over the cells with target B of
\* weight * (f[A] - f[B]); a batch gives, field by field, what the operator
\* gives on that field alone, and a single field gives a single field.
C13_LaplacianIsWeightedDifferenceSum ==
    /\ op = "laplacian" =>
        ret = WeightedDifferences(args.point, args.tangent_vec)
    /\ op = "laplacian_at_tangent_vec" =>
        /\ ret.ndim = args.tangent_vec.ndim
        /\ Len(ret.data) = Len(args.tangent_vec.data)
        /\ \A n \in 1..Len(ret.data) :
            /\ ret.data[n] = WeightedDifferences(args.point, args.tangent_vec.data[n])
            /\ ret.data[n]
               = laplacian_at_tangent_vec(laplacian(args.point),
                                          Single(args.tangent_vec.data[n])).data[1]

C13_Witness ==
    /\ op = "laplacian_at_tangent_vec"
    /\ n_faces = 2
    /\ args.tangent_vec.ndim = 3
    /\ ret.data[1] # ret.data[2]
    /\ ret.data[2] # ZeroField
    /\ \E B \in Vertices :
        /\ Cardinality(CellsInto(B)) = 2
        /\ ret.data[1][B] # Vec(0, 0, 0)
        /\ ret.data[1][B] = WeightedDifferences(args.point, args.tangent_vec.data[1])[B]

\* face f of the point has zero area: its two edge vectors are parallel
ZeroArea(point, f) == Det(surface_metric_matrices(point)[f]) = Zero

\* a number is finite: a division by zero leaves the denominator 0
Finite(x) == x[2] # 0

\* the three cotangent weights of face f that laplacian(point) holds
FaceWeights(point, f) ==
    {laplacian(point).cot[j] : j \in (3 * (f - 1))..(3 * (f - 1) + 2)}

\* the square root of the floor, 1e-3
RootOfFloor == RSqrt(ClipMin)

\* C14 as stated: for a base point with a zero-area triangle, laplacian
\* divides by a zero area and a weight of that triangle is Inf or NaN, while
\* _triangle_areas never returns a value below sqrt(1e-6).
C14_LaplacianUnprotected ==
    op = "laplacian" =>
        \A f \in 1..n_faces :
            /\ ZeroArea(args.point, f) =>
                   \E w \in FaceWeights(args.point, f) : ~Finite(w)
            /\ ~RLess(_triangle_areas(args.point)[f], RootOfFloor)

\* C14 (amended): laplacian clips the Heron radicand at 1e-6 as
\* _triangle_areas does: for a zero-area triangle it divides by sqrt(1e-6),
\* every weight is finite and equals the weight formula with area 1e-3, the
\* result is finite, and _triangle_areas never returns a value below sqrt(1e-6).
C14_LaplacianFloored ==
    op = "laplacian" =>
        /\ \A v \in Vertices, d \in 1..3 : Finite(ret[v][d])
        /\ \A f \in 1..n_faces :
            /\ \A w \in FaceWeights(args.point, f) : Finite(w)
            /\ ZeroArea(args.point, f) =>
                /\ _triangle_areas(args.point)[f] = RootOfFloor
                /\ \A i \in 0..2 :
                    laplacian(args.point).cot[3 * (f - 1) + i]
                    = CornerWeight(args.point, [g \in 1..n_faces |-> RootOfFloor], f, i)
            /\ ~RLess(_triangle_areas(args.point)[f], RootOfFloor)

C14_Witness ==
    /\ op = "laplacian"
    /\ n_faces = 2
    /\ ZeroArea(args.point, 1)
    /\ ~ZeroArea(args.point, 2)
    /\ _triangle_areas(args.point)[1] = RootOfFloor
    /\ laplacian(args.point).cot[0] = R(18000)
    /\ ret # ZeroField

====
